---- MODULE Spec2Model ----
(***************************************************************************)
(* jupyterpost: the JupyterHub service that posts messages to Mattermost.  *)
(*                                                                         *)
(* The service follows src/jupyterpost/jupyterpost.py: hub_post_message is *)
(* a coroutine that awaits one Mattermost REST call after the other; every *)
(* await is one action of the model (the platform serves the call and the  *)
(* coroutine runs to its next await).  Several requests run concurrently,  *)
(* as tornado interleaves them at their awaits.  The notebook side         *)
(* (src/jupyterpost/client.py: the %post magic and post()) and the hub's   *)
(* configuration (configure_jupyterhub) are functions of their inputs;     *)
(* each has a specification of its own that applies it to every input.     *)
(*                                                                         *)
(* Python strings are sequences of tokens (<<"@", "alice">> is "@alice"),   *)
(* so that startswith, slicing and f-strings are computed, not assumed.    *)
(***************************************************************************)
EXTENDS Naturals, Sequences, FiniteSets, TLC

\* ---------------------------------------------------------------- bounds
\* Number of delivery requests the service handles (concurrently or in turn).
NumRequests == 2

Requests == 1..NumRequests

\* ------------------------------------------------------- python values
\* Optional values: None, or a value that is there.
None == <<"None">>
Some(x) == <<"Some", x>>

\* Python truthiness of an Optional[bytes] / Optional[str]: None and the empty
\* value are both falsy.
Truthy(opt) == opt # None /\ Len(opt[2]) > 0

\* `a or b` on optional strings.
PyOr(opt, default) == IF Truthy(opt) THEN opt[2] ELSE default

\* ------------------------------------------------------ the environment
\* The service's process environment, as configure_jupyterhub sets it: the
\* team may be one the platform holds, or a misconfigured one.
Environments ==
    {[MATTERMOST_TEAM |-> t, BOT_SIGNATURE |-> <<"(via jupyterpost)">>] :
        t \in {<<"eng">>, <<"nowhere">>}}

\* ---------------------------------------------- the Mattermost platform
\* What the platform holds: the bot account, users, teams and channels.
BotId == <<"uid", <<"bot">>>>
UserNames == {<<"alice">>, <<"bob">>}
UserId(name) == <<"uid", name>>
TeamNames == {<<"eng">>}
TeamId(name) == <<"tid", name>>
TeamMembers == [t \in {TeamId(<<"eng">>)} |-> {BotId, UserId(<<"alice">>)}]
ChannelNames == {<<"general">>}
ChannelId(name) == <<"cid", name>>
ChannelStates == {"public", "private", "absent"}

\* HTTP responses: a status and a JSON body.
Resp(status, body) == [status |-> status, body |-> body]
Is2xx(resp) == resp.status \in {200, 201}

\* A transport or server fault, which any call may meet.
Fault == Resp(500, <<"internal error">>)

\* ---------------------------------------------------------- the requests
\* What callers send: the destination, the message, the "file" parts of the
\* form (none, an empty file, a file with content).
Destinations == {<<"@", "alice">>, <<"@", "bob">>, <<"@", "ghost">>, <<"general">>}
HttpFileParts == {<<>>, <<<<>>>>, <<<<137, 80>>>>}
CallerNames == {<<"dave">>}
Messages == {<<"ping">>}

VARIABLES
    environ,    \* os.environ of the service process
    pc,         \* per request: the call it awaits next, "idle" or "done"
    args,       \* per request: hub_post_message's arguments
    local,      \* per request: me, other, team_id, channel, file_ids
    result,     \* per request: what hub_post_message returned or raised
    log,        \* per request: the platform calls issued, with their status
    chanState,  \* platform: each named channel public, private or absent
    joined,     \* platform: ids of the named channels the bot is a member of
    directs,    \* platform: the direct channels, [pair, id]
    files,      \* platform: the uploaded files
    posts,      \* platform: the created posts
    nextId,     \* platform: the next generated id
    members,    \* platform: per team id, the ids of its members
    client,     \* notebook side: one invocation of %post or of post()
    hubcfg      \* hub side: the roles in c.JupyterHub.load_roles

vars == <<environ, pc, args, local, result, log, chanState, joined, directs, files, posts, nextId,
          members, client, hubcfg>>
platform == <<chanState, joined, directs, files, posts, nextId, members>>
tools == <<client, hubcfg>>

NoArgs == [message |-> <<>>, channel |-> <<>>, file_ |-> None, team_name |-> None]
NoLocal == [team_name |-> <<>>, me |-> None, other |-> None, team_id |-> None,
            channel |-> None, file_ids |-> <<>>]
NoResult == [kind |-> "none"]

\* Nothing invoked on the notebook side, nothing configured on the hub side.
NoInvocation == [phase |-> "none"]
NotConfigured == [phase |-> "none"]

\* The service just started: no request yet, the platform holds no content.
ServiceIdle ==
    /\ environ \in Environments
    /\ pc = [r \in Requests |-> "idle"]
    /\ args = [r \in Requests |-> NoArgs]
    /\ local = [r \in Requests |-> NoLocal]
    /\ result = [r \in Requests |-> NoResult]
    /\ log = [r \in Requests |-> <<>>]
    /\ joined = {}
    /\ directs = {}
    /\ files = {}
    /\ posts = {}
    /\ nextId = 1
    /\ members = TeamMembers

Init ==
    /\ ServiceIdle
    /\ chanState = [c \in ChannelNames |-> "public"]
    /\ client = NoInvocation
    /\ hubcfg = NotConfigured


\* ------------------------------------------------- platform (REST surface)
\* Each call's response as the platform computes it from what it holds.

\* GET users/me
PlatformUsersMe == Resp(200, [id |-> BotId])

\* GET users/username/{name}
PlatformUserByName(name) ==
    IF name \in UserNames THEN Resp(200, [id |-> UserId(name)])
    ELSE Resp(404, <<"user not found">>)

\* GET teams/name/{team}
PlatformTeamByName(team) ==
    IF team \in TeamNames THEN Resp(200, [id |-> TeamId(team)])
    ELSE Resp(404, <<"team not found">>)

\* GET teams/{team_id}/members/{user_id}
PlatformTeamMember(team_id, user_id) ==
    IF team_id \in DOMAIN members /\ user_id \in members[team_id]
    THEN Resp(200, [team_id |-> team_id, user_id |-> user_id])
    ELSE Resp(404, <<"team member not found">>)

\* The bot sees a named channel when it is public, or private with the bot in it.
Visible(name) ==
    /\ name \in ChannelNames
    /\ \/ chanState[name] = "public"
       \/ chanState[name] = "private" /\ ChannelId(name) \in joined

\* GET teams/name/{team}/channels/name/{channel}
PlatformChannelByName(team, name) ==
    IF team \notin TeamNames THEN Resp(404, <<"team not found">>)
    ELSE IF Visible(name) THEN Resp(200, [id |-> ChannelId(name)])
    ELSE IF name \in ChannelNames /\ chanState[name] = "private"
         THEN Resp(404, <<"channel is private">>)
    ELSE Resp(404, <<"channel not found">>)

\* POST channels/direct with a list of two user ids: the channel of the
\* unordered pair, created on the first call and returned on every later one.
DirectOf(pair) == {d \in directs : d.pair = pair}
PlatformDirectId(pair) ==
    IF DirectOf(pair) # {} THEN (CHOOSE d \in DirectOf(pair) : TRUE).id
    ELSE <<"dm", nextId>>

\* POST channels/{channel_id}/members
PlatformJoin(channel_id) ==
    IF \E c \in ChannelNames : ChannelId(c) = channel_id /\ Visible(c)
    THEN Resp(201, [channel_id |-> channel_id])
    ELSE Resp(404, <<"channel not found">>)

\* POST posts: the poster must be in the channel.
CanPost(user_id, channel_id) ==
    \/ \E d \in directs : d.id = channel_id /\ user_id \in d.pair
    \/ /\ channel_id \in joined
       /\ \E c \in ChannelNames : ChannelId(c) = channel_id /\ chanState[c] # "absent"

\* ------------------------------------------------------ what a call yields
Returned(value) == [kind |-> "return", value |-> value]
ValueError(msg) == [kind |-> "ValueError", msg |-> msg]
\* httpx.HTTPStatusError, raised by response.raise_for_status().
HTTPStatusError(resp) == [kind |-> "HTTPStatusError", status |-> resp.status, body |-> resp.body]

\* One entry of a request's call log: the call, its status, and the id it
\* returned (or the error body).
Entry(call, resp, note) == [call |-> call, status |-> resp.status, note |-> note]
ErrEntry(call, resp) == Entry(call, resp, resp.body)

\* The request ends, raising exc or returning a value.
Finish(r, outcome) ==
    /\ pc' = [pc EXCEPT ![r] = "done"]
    /\ result' = [result EXCEPT ![r] = outcome]

\* The request goes on to its next call.
Goto(r, next) ==
    /\ pc' = [pc EXCEPT ![r] = next]
    /\ UNCHANGED result

\* ------------------------------------------------------- hub_post_message
\* channel.startswith("@")
StartsWithAt(channel) == Len(channel) > 0 /\ channel[1] = "@"

\* channel[1:]
Username(channel) == Tail(channel)

\* `if file_:` decides between the upload and the post.
NextAfterResolve(file_) == IF Truthy(file_) THEN "files" ELSE "posts"

\* The join left out: the lookup is followed by the upload or the post.
NextAfterLookup_SkipJoin(file_) == NextAfterResolve(file_)

\* The channel lookup is followed by the join.
NextAfterLookup(file_) == "channels/members"

\* A missing try around the user lookup: every error propagates.
UserLookupFailure_NoCatch(channel, resp) == HTTPStatusError(resp)

\* The except clause around the user lookup.
UserLookupFailure(channel, resp) ==
    IF resp.status = 404 THEN ValueError(channel \o <<" does not exist">>)
    ELSE HTTPStatusError(resp)

\* The team lookup wrapped like the user lookup: a 404 becomes a ValueError.
TeamLookupFailure_Typed(channel, resp) ==
    IF resp.status = 404 THEN ValueError(channel \o <<" does not exist">>)
    ELSE HTTPStatusError(resp)

\* The team lookup stands outside every try: its error propagates.
TeamLookupFailure(channel, resp) == HTTPStatusError(resp)

\* The membership check's except clause raising the user lookup's message.
MemberCheckFailure_AsMissing(channel, team_name, resp) ==
    IF resp.status = 404 THEN ValueError(channel \o <<" does not exist">>)
    ELSE HTTPStatusError(resp)

\* The except clause around the membership check.
MemberCheckFailure(channel, team_name, resp) ==
    IF resp.status = 404
    THEN ValueError(channel \o <<" is not a member of ">> \o team_name)
    ELSE HTTPStatusError(resp)

\* The channel lookup's except clause without its test of the status:
\* every error reads as a missing channel.
ChannelLookupFailure_CatchAll(channel, resp) ==
    ValueError(channel \o <<" does not exist or is private">>)

\* The channel lookup's except clause passing the platform's error on.
ChannelLookupFailure_Leaky(channel, resp) ==
    IF resp.status = 404 THEN ValueError(channel \o <<": ">> \o resp.body)
    ELSE HTTPStatusError(resp)

\* The except clause around the channel lookup.
ChannelLookupFailure(channel, resp) ==
    IF resp.status = 404 THEN ValueError(channel \o <<" does not exist or is private">>)
    ELSE HTTPStatusError(resp)

\* The bot's id sent twice: a direct channel of the bot with itself.
DirectPair_Self(loc) == <<loc.me, loc.me>>

\* json=[me, other]: the two ends of the direct channel.
DirectPair(loc) == <<loc.me, loc.other>>

\* channel_id = channel["id"]
PostChannelId(loc) == loc.channel.id

\* file_ids = [upload["file_infos"][0]["id"]]
UploadFileIds(upload) == <<upload.file_infos[1].id>>

\* ChatPostHandler.post up to the call: the message gets the caller's
\* signature, the attachment is the body of the first "file" part.
HandlerMessage(username, message) ==
    <<"*@">> \o username \o <<" ">> \o environ.BOT_SIGNATURE \o <<"*: ">> \o message
HandlerFile(parts) == IF parts = <<>> THEN None ELSE Some(parts[1])

\* ChatPostHandler.post without its except clause: every exception is
\* tornado's 500.
HandlerResponse_NoCatch(outcome) ==
    CASE outcome.kind = "ValueError" -> Resp(500, <<>>)
      [] outcome.kind = "HTTPStatusError" -> Resp(500, <<>>)
      [] outcome.kind = "return" -> Resp(200, <<>>)

\* ChatPostHandler.post after the call: a ValueError becomes a 400 with the
\* message as body; any other exception is tornado's 500; a return is a 200
\* with an empty body.
HandlerResponse(outcome) ==
    CASE outcome.kind = "ValueError" -> Resp(400, outcome.msg)
      [] outcome.kind = "HTTPStatusError" -> Resp(500, <<>>)
      [] outcome.kind = "return" -> Resp(200, <<>>)

\* hub_post_message up to its first await: team_name falls back on the
\* environment.
Begin(r, a) ==
    /\ pc[r] = "idle"
    /\ \A q \in Requests : q < r => pc[q] # "idle"
    /\ args' = [args EXCEPT ![r] = a]
    /\ local' = [local EXCEPT ![r].team_name = PyOr(a.team_name, environ.MATTERMOST_TEAM)]
    /\ pc' = [pc EXCEPT ![r] = "users/me"]
    /\ UNCHANGED <<tools, environ, result, log, platform>>

\* ChatPostHandler.post: await hub_post_message(message, channel, file_)
HandlerPost(r) ==
    \E u \in CallerNames, m \in Messages, d \in Destinations, parts \in HttpFileParts :
        Begin(r, [message |-> HandlerMessage(u, m), channel |-> d,
                  file_ |-> HandlerFile(parts), team_name |-> None])

\* me = (await mm_api_call("get", "users/me"))["id"]
UsersMeCall(r) ==
    /\ pc[r] = "users/me"
    /\ \E fault \in BOOLEAN : LET resp == IF fault THEN Fault ELSE PlatformUsersMe IN
        IF Is2xx(resp)
        THEN /\ log' = [log EXCEPT ![r] = Append(@, Entry("users/me", resp, resp.body.id))]
             /\ local' = [local EXCEPT ![r].me = resp.body.id]
             /\ Goto(r, IF StartsWithAt(args[r].channel) THEN "users/username"
                        ELSE "channels/name")
        ELSE /\ log' = [log EXCEPT ![r] = Append(@, ErrEntry("users/me", resp))]
             /\ Finish(r, HTTPStatusError(resp))
             /\ UNCHANGED local
    /\ UNCHANGED <<tools, environ, args, platform>>

\* The bot's id kept from an earlier request, and the call left out.
UsersMe_Cached(r) ==
    IF \E q \in Requests \ {r} : local[q].me # None
    THEN /\ pc[r] = "users/me"
         /\ local' = [local EXCEPT ![r].me =
                        local[CHOOSE q \in Requests \ {r} : local[q].me # None].me]
         /\ Goto(r, IF StartsWithAt(args[r].channel) THEN "users/username"
                    ELSE "channels/name")
         /\ UNCHANGED <<tools, environ, args, log, platform>>
    ELSE UsersMeCall(r)

\* Every request resolves the bot's identity itself, as its first call.
UsersMe(r) == UsersMeCall(r)

\* other = (await mm_api_call("get", f"users/username/{channel[1:]}"))["id"]
UserLookup(r) ==
    /\ pc[r] = "users/username"
    /\ \E fault \in BOOLEAN : LET resp == IF fault THEN Fault ELSE PlatformUserByName(Username(args[r].channel)) IN
        IF Is2xx(resp)
        THEN /\ log' = [log EXCEPT ![r] = Append(@, Entry("users/username", resp, resp.body.id))]
             /\ local' = [local EXCEPT ![r].other = resp.body.id]
             /\ Goto(r, "teams/name")
        ELSE /\ log' = [log EXCEPT ![r] = Append(@, ErrEntry("users/username", resp))]
             /\ Finish(r, UserLookupFailure(args[r].channel, resp))
             /\ UNCHANGED local
    /\ UNCHANGED <<tools, environ, args, platform>>

\* team_id = (await mm_api_call("get", f"teams/name/{team_name}"))["id"]
TeamLookup(r) ==
    /\ pc[r] = "teams/name"
    /\ \E fault \in BOOLEAN : LET resp == IF fault THEN Fault ELSE PlatformTeamByName(local[r].team_name) IN
        IF Is2xx(resp)
        THEN /\ log' = [log EXCEPT ![r] = Append(@, Entry("teams/name", resp, resp.body.id))]
             /\ local' = [local EXCEPT ![r].team_id = resp.body.id]
             /\ Goto(r, "teams/members")
        ELSE /\ log' = [log EXCEPT ![r] = Append(@, ErrEntry("teams/name", resp))]
             /\ Finish(r, TeamLookupFailure(args[r].channel, resp))
             /\ UNCHANGED local
    /\ UNCHANGED <<tools, environ, args, platform>>

\* The membership check's 404 passed over: the request goes on to the
\* direct channel.
MemberCheck_Ignore404(r) ==
    /\ pc[r] = "teams/members"
    /\ \E fault \in BOOLEAN : LET resp == IF fault THEN Fault ELSE PlatformTeamMember(local[r].team_id, local[r].other) IN
        IF Is2xx(resp) \/ resp.status = 404
        THEN /\ log' = [log EXCEPT ![r] = Append(@, Entry("teams/members", resp, local[r].other))]
             /\ Goto(r, "channels/direct")
        ELSE /\ log' = [log EXCEPT ![r] = Append(@, ErrEntry("teams/members", resp))]
             /\ Finish(r, MemberCheckFailure(args[r].channel, local[r].team_name, resp))
    /\ UNCHANGED <<tools, environ, args, local, platform>>

\* await mm_api_call("get", f"teams/{team_id}/members/{other}")
MemberCheck(r) ==
    /\ pc[r] = "teams/members"
    /\ \E fault \in BOOLEAN : LET resp == IF fault THEN Fault ELSE PlatformTeamMember(local[r].team_id, local[r].other) IN
        IF Is2xx(resp)
        THEN /\ log' = [log EXCEPT ![r] = Append(@, Entry("teams/members", resp, resp.body.user_id))]
             /\ Goto(r, "channels/direct")
        ELSE /\ log' = [log EXCEPT ![r] = Append(@, ErrEntry("teams/members", resp))]
             /\ Finish(r, MemberCheckFailure(args[r].channel, local[r].team_name, resp))
    /\ UNCHANGED <<tools, environ, args, local, platform>>


\* channel = await mm_api_call("post", "channels/direct", json=[me, other])
DirectChannel(r) ==
    /\ pc[r] = "channels/direct"
    /\ \E fault \in BOOLEAN :
        LET body == DirectPair(local[r])
            pair == {body[i] : i \in DOMAIN body}
            id == PlatformDirectId(pair)
            resp == IF fault THEN Fault ELSE Resp(201, [id |-> id])
        IN  IF Is2xx(resp)
            THEN /\ directs' = directs \cup {[pair |-> pair, id |-> id]}
                 /\ nextId' = IF DirectOf(pair) = {} THEN nextId + 1 ELSE nextId
                 /\ log' = [log EXCEPT ![r] = Append(@, Entry("channels/direct", resp, resp.body.id))]
                 /\ local' = [local EXCEPT ![r].channel = resp.body]
                 /\ Goto(r, NextAfterResolve(args[r].file_))
            ELSE /\ log' = [log EXCEPT ![r] = Append(@, ErrEntry("channels/direct", resp))]
                 /\ Finish(r, HTTPStatusError(resp))
                 /\ UNCHANGED <<local, directs, nextId>>
    /\ UNCHANGED <<tools, environ, args, chanState, joined, files, posts, members>>

\* channel = await mm_api_call("get", f"teams/name/{team_name}/channels/name/{channel}")
ChannelLookup(r) ==
    /\ pc[r] = "channels/name"
    /\ \E fault \in BOOLEAN :
        LET resp == IF fault THEN Fault
                    ELSE PlatformChannelByName(local[r].team_name, args[r].channel)
        IN  IF Is2xx(resp)
            THEN /\ log' = [log EXCEPT ![r] = Append(@, Entry("channels/name", resp, resp.body.id))]
                 /\ local' = [local EXCEPT ![r].channel = resp.body]
                 /\ Goto(r, NextAfterLookup(args[r].file_))
            ELSE /\ log' = [log EXCEPT ![r] = Append(@, ErrEntry("channels/name", resp))]
                 /\ Finish(r, ChannelLookupFailure(args[r].channel, resp))
                 /\ UNCHANGED local
    /\ UNCHANGED <<tools, environ, args, platform>>

\* The join's log entry also records whether the bot was in the channel
\* already when the call was served.
JoinEntry(resp, note, member) ==
    [call |-> "channels/members", status |-> resp.status, note |-> note, member |-> member]

\* The join left out when the bot is in the channel already.
Join_Once(r) ==
    /\ pc[r] = "channels/members"
    /\ IF local[r].channel.id \in joined
       THEN /\ Goto(r, NextAfterResolve(args[r].file_))
            /\ UNCHANGED <<log, joined>>
       ELSE \E fault \in BOOLEAN :
            LET resp == IF fault THEN Fault ELSE PlatformJoin(local[r].channel.id)
            IN  IF Is2xx(resp)
                THEN /\ joined' = joined \cup {resp.body.channel_id}
                     /\ log' = [log EXCEPT ![r] = Append(@, JoinEntry(resp, resp.body.channel_id, FALSE))]
                     /\ Goto(r, NextAfterResolve(args[r].file_))
                ELSE /\ log' = [log EXCEPT ![r] = Append(@, JoinEntry(resp, resp.body, FALSE))]
                     /\ Finish(r, HTTPStatusError(resp))
                     /\ UNCHANGED joined
    /\ UNCHANGED <<tools, environ, args, local, chanState, directs, files, posts, nextId, members>>

\* await mm_api_call("post", f"channels/{channel['id']}/members", json={"user_id": me})
Join(r) ==
    /\ pc[r] = "channels/members"
    /\ \E fault \in BOOLEAN :
        LET resp == IF fault THEN Fault ELSE PlatformJoin(local[r].channel.id)
            member == local[r].channel.id \in joined
        IN  IF Is2xx(resp)
            THEN /\ joined' = joined \cup {resp.body.channel_id}
                 /\ log' = [log EXCEPT ![r] = Append(@, JoinEntry(resp, resp.body.channel_id, member))]
                 /\ Goto(r, NextAfterResolve(args[r].file_))
            ELSE /\ log' = [log EXCEPT ![r] = Append(@, JoinEntry(resp, resp.body, member))]
                 /\ Finish(r, HTTPStatusError(resp))
                 /\ UNCHANGED joined
    /\ UNCHANGED <<tools, environ, args, local, chanState, directs, files, posts, nextId, members>>

\* The upload's error swallowed: the post goes out without the file.
OnUploadError_Swallow(r, resp) == Goto(r, "posts")

\* The upload stands outside every try: its error ends the request.
OnUploadError(r, resp) == Finish(r, HTTPStatusError(resp))

\* upload = await mm_api_call("post", "files", params={"channel_id": channel_id,
\*     "filename": "upload.png"}, data=file_)
Upload(r) ==
    /\ pc[r] = "files"
    /\ \E fault \in BOOLEAN :
        LET info == [id |-> <<"file", nextId>>, channel_id |-> PostChannelId(local[r]),
                     filename |-> <<"upload.png">>, data |-> args[r].file_[2]]
            resp == IF fault THEN Fault ELSE Resp(201, [file_infos |-> <<info>>])
        IN  IF Is2xx(resp)
            THEN /\ files' = files \cup {info}
                 /\ nextId' = nextId + 1
                 /\ log' = [log EXCEPT ![r] = Append(@, Entry("files", resp, info.id))]
                 /\ local' = [local EXCEPT ![r].file_ids = UploadFileIds(resp.body)]
                 /\ Goto(r, "posts")
            ELSE /\ log' = [log EXCEPT ![r] = Append(@, ErrEntry("files", resp))]
                 /\ OnUploadError(r, resp)
                 /\ UNCHANGED <<local, files, nextId>>
    /\ UNCHANGED <<tools, environ, args, chanState, joined, directs, posts, members>>

\* A failed post followed by the deletion of the uploaded file.
OnPostError_Compensate(r, resp) ==
    /\ log' = [log EXCEPT ![r] =
                 Append(Append(@, ErrEntry("posts", resp)),
                        Entry("files/delete", Resp(200, <<>>), <<>>))]
    /\ Finish(r, HTTPStatusError(resp))
    /\ files' = {f \in files : \A i \in DOMAIN local[r].file_ids : f.id # local[r].file_ids[i]}

\* The post stands outside every try: its error ends the request, and
\* nothing is done about an uploaded file.
OnPostError(r, resp) ==
    /\ log' = [log EXCEPT ![r] = Append(@, ErrEntry("posts", resp))]
    /\ Finish(r, HTTPStatusError(resp))
    /\ UNCHANGED files

\* return await mm_api_call("post", "posts", json={"channel_id": channel_id,
\*     "message": message, "file_ids": file_ids})
Post(r) ==
    /\ pc[r] = "posts"
    /\ \E fault \in BOOLEAN :
        LET post == [id |-> <<"post", nextId>>, channel_id |-> PostChannelId(local[r]),
                     message |-> args[r].message, file_ids |-> local[r].file_ids,
                     user_id |-> local[r].me]
            resp == IF fault THEN Fault
                    ELSE IF CanPost(local[r].me, post.channel_id) THEN Resp(201, post)
                    ELSE Resp(403, <<"no permission to post">>)
        IN  IF Is2xx(resp)
            THEN /\ posts' = posts \cup {post}
                 /\ nextId' = nextId + 1
                 /\ log' = [log EXCEPT ![r] = Append(@, Entry("posts", resp, post.id))]
                 /\ Finish(r, Returned(resp.body))
                 /\ UNCHANGED files
            ELSE /\ OnPostError(r, resp)
                 /\ UNCHANGED <<posts, nextId>>
    /\ UNCHANGED <<tools, environ, args, local, chanState, joined, directs, members>>

\* ----------------------------------------------------- platform changes
\* A platform administrator makes a channel public or private, or deletes
\* it (which ends every membership in it).
AdminSetChannel(c, s) ==
    /\ chanState[c] # s
    /\ chanState' = [chanState EXCEPT ![c] = s]
    /\ joined' = IF s = "absent" THEN joined \ {ChannelId(c)} ELSE joined
    /\ UNCHANGED <<tools, environ, pc, args, local, result, log, directs, files, posts, nextId, members>>

Next ==
    \/ \E r \in Requests : HandlerPost(r)
    \/ \E r \in Requests : UsersMe(r)
    \/ \E r \in Requests : UserLookup(r)
    \/ \E r \in Requests : TeamLookup(r)
    \/ \E r \in Requests : MemberCheck(r)
    \/ \E r \in Requests : DirectChannel(r)
    \/ \E r \in Requests : ChannelLookup(r)
    \/ \E r \in Requests : Join(r)
    \/ \E r \in Requests : Upload(r)
    \/ \E r \in Requests : Post(r)
    \/ \E c \in ChannelNames, s \in ChannelStates : AdminSetChannel(c, s)

Spec == Init /\ [][Next]_vars

\* The service on a platform nobody else changes: the channel is public,
\* private or absent from the start and stays so.
InitFixed ==
    /\ ServiceIdle
    /\ chanState \in [ChannelNames -> ChannelStates]
    /\ client = NoInvocation
    /\ hubcfg = NotConfigured

NextFixed ==
    \/ \E r \in Requests : HandlerPost(r)
    \/ \E r \in Requests : UsersMe(r)
    \/ \E r \in Requests : UserLookup(r)
    \/ \E r \in Requests : TeamLookup(r)
    \/ \E r \in Requests : MemberCheck(r)
    \/ \E r \in Requests : DirectChannel(r)
    \/ \E r \in Requests : ChannelLookup(r)
    \/ \E r \in Requests : Join(r)
    \/ \E r \in Requests : Upload(r)
    \/ \E r \in Requests : Post(r)

SpecFixed == InitFixed /\ [][NextFixed]_vars

\* A platform administrator removes a user from a team.
AdminRemoveMember(t, u) ==
    /\ t \in DOMAIN members
    /\ u \in members[t] \ {BotId}
    /\ members' = [members EXCEPT ![t] = @ \ {u}]
    /\ UNCHANGED <<tools, environ, pc, args, local, result, log,
                   chanState, joined, directs, files, posts, nextId>>

\* The service on a platform whose administrators change channels and team
\* memberships while requests are in flight.
NextMembers ==
    \/ \E r \in Requests : HandlerPost(r)
    \/ \E r \in Requests : UsersMe(r)
    \/ \E r \in Requests : UserLookup(r)
    \/ \E r \in Requests : TeamLookup(r)
    \/ \E r \in Requests : MemberCheck(r)
    \/ \E r \in Requests : DirectChannel(r)
    \/ \E r \in Requests : ChannelLookup(r)
    \/ \E r \in Requests : Join(r)
    \/ \E r \in Requests : Upload(r)
    \/ \E r \in Requests : Post(r)
    \/ \E c \in ChannelNames, s \in ChannelStates : AdminSetChannel(c, s)
    \/ \E t \in DOMAIN TeamMembers, u \in {UserId(n) : n \in UserNames} : AdminRemoveMember(t, u)

SpecMembers == Init /\ [][NextMembers]_vars


\* ======================================================================
\* The notebook side: src/jupyterpost/client.py
\* ======================================================================
\* One invocation is followed from the %post magic (or a direct call of
\* post()) to the HTTP request sent to the service.  The strings the magic
\* takes apart (the captured stdout) are spelled character by character.

\* Number of display outputs a cell's execution leaves behind, at most.
MaxOutputs == 2

RECURSIVE StrJoin(_, _)
\* sep.join(parts)
StrJoin(sep, parts) ==
    IF parts = <<>> THEN <<>>
    ELSE IF Len(parts) = 1 THEN parts[1]
    ELSE parts[1] \o sep \o StrJoin(sep, Tail(parts))

NL == <<"\n">>
\* The literal the magic puts in place of an empty line message.
Placeholder == <<"zero-width-space">>

\* base64: the value of each character of the alphabet in use here.
B64Value(c) ==
    CASE c = "A" -> 0  [] c = "B" -> 1  [] c = "O" -> 14 [] c = "Q" -> 16
      [] c = "V" -> 21 [] c = "i" -> 34 [] c = "=" -> 0

RECURSIVE B64Decode(_)
\* b64decode(text): every four characters give three bytes, less one for
\* each padding character.
B64Decode(text) ==
    IF Len(text) < 4 THEN <<>>
    ELSE LET n == B64Value(text[1]) * 262144 + B64Value(text[2]) * 4096
                    + B64Value(text[3]) * 64 + B64Value(text[4])
             three == <<n \div 65536, (n \div 256) % 256, n % 256>>
             pad == Cardinality({i \in 3..4 : text[i] = "="})
         IN  SubSeq(three, 1, 3 - pad) \o B64Decode(SubSeq(text, 5, Len(text)))

\* What a display output holds: a representation per mime type.
Figure(png) == ("image/png" :> png) @@ ("text/plain" :> <<"<Figure size 640x480>">>)
Outputs ==
    { Figure(<<"i", "V", "B", "O">>),
      Figure(<<"Q", "Q", "=", "=">>),
      ("text/markdown" :> <<"**bold**">>) @@ ("text/plain" :> <<"<Markdown object>">>),
      ("text/latex" :> <<"$x^2$">>) @@ ("text/plain" :> <<"<Math object>">>),
      ("text/plain" :> <<"42">>),
      ("text/html" :> <<"<b>42</b>">>) }
OutputLists == UNION {[1..n -> Outputs] : n \in 0..MaxOutputs}

\* What running the cell leaves in capture_output(): stdout and the outputs.
Captures == [stdout : {<<>>, <<"h", "i", "\n">>}, outputs : OutputLists]
NoCapture == [stdout |-> <<>>, outputs |-> <<>>]

\* The notebook's process environment.
ClientEnvironments ==
    [JUPYTERPOST_URL : {None, Some(<<"http://hub/services/jupyterpost">>)},
     JPY_API_TOKEN : {None, Some(<<"secret">>)}]

\* %post as a line magic (cell is None) and as a cell magic.
LineWords == {<<>>, <<<<"all">>, <<"done">>>>}
MagicLines ==
    [message : LineWords, channel : {<<"general">>}, raw : BOOLEAN, input : BOOLEAN,
     url : {None, Some(<<"http://other/post">>)}, token : {None}]
MagicInvocations ==
    {[line |-> l, cell |-> None, captured |-> NoCapture] : l \in MagicLines}
    \cup {[line |-> l, cell |-> Some(<<"plot(x)">>), captured |-> c] :
            l \in MagicLines, c \in Captures}
NoMagic == [line |-> <<>>, cell |-> None, captured |-> NoCapture]

\* What post() may be given as attachment: nothing, bytes, a matplotlib
\* figure (it has savefig, which writes the figure's png), or something else.
Attachments ==
    {None, <<"bytes", <<>>>>, <<"bytes", <<137, 80, 78>>>>, <<"figure", <<137, 80, 71>>>>,
     <<"str", <<>>>>, <<"str", <<"plot.png">>>>}
PostArgs(message, channel, attachment, service_url, token) ==
    [message |-> message, channel |-> channel, attachment |-> attachment,
     service_url |-> service_url, token |-> token]
DirectCalls ==
    {PostArgs(<<"ping">>, <<"general">>, a, u, t) :
        a \in Attachments, u \in {None, Some(<<"http://other/post">>)},
        t \in {None, Some(<<"mine">>)}}

TypeError(msg) == [kind |-> "TypeError", msg |-> msg]

\* The state of an invocation: the magic is yet to run ("magic"), post() has
\* been called and is yet to run ("post"), or all is over ("done").
Invocation(phase, env, magic, ran, calls, call, sent, raised) ==
    [phase |-> phase, env |-> env, magic |-> magic, ran |-> ran, calls |-> calls,
     call |-> call, sent |-> sent, raised |-> raised]

InitClient ==
    /\ ServiceIdle
    /\ chanState = [c \in ChannelNames |-> "public"]
    /\ hubcfg = NotConfigured
    /\ \E env \in ClientEnvironments :
        \/ \E m \in MagicInvocations :
              client = Invocation("magic", env, m, 0, 0, None, <<>>, None)
        \/ \E c \in DirectCalls :
              client = Invocation("post", env, NoMagic, 0, 1, Some(c), <<>>, None)

\* ------------------------------------------------ JupyterpostMagics.post
\* message = " ".join(args.message)
LineMessage(line) == StrJoin(<<" ">>, line.message)

\* message = [message] if message else [placeholder]
MessageHead(message) == IF Len(message) > 0 THEN message ELSE Placeholder

\* --raw running the cell all the same.
RunCells_Always(line) == IF line.raw THEN 1 ELSE 1

\* How often shell.run_cell is called for a cell: the raw branch returns
\* before the call, the other branch makes it once.
RunCells(line) == IF line.raw THEN 0 ELSE 1

\* "\n".join((message[0], cell))
RawMessage(head, cell) == StrJoin(NL, <<head, cell>>)

\* The code fence of Markdown, three backticks.
Fence == "<fence>"

\* f"{fence}python{cell}{fence}"
FormattedSource(cell) == <<Fence, "python">> \o cell \o <<Fence>>

\* message += captured.stdout: a list extended by a string takes the
\* string's characters, one element each.
ExtendedBy(stdout) == [i \in DOMAIN stdout |-> <<stdout[i]>>]

\* f"{fence}\n{text}\n{fence}"
Fenced(text) == <<Fence, "\n">> \o text \o <<"\n", Fence>>

\* The mime types the magic looks for, in its order.
MimeTypes == <<"image/png", "text/markdown", "text/latex", "text/plain">>

RECURSIVE ScanMimes(_, _)
\* The inner loop over the mime types, from the i-th on: what it appends to
\* the message and to the attachments.
ScanMimes(data, i) ==
    IF i > Len(MimeTypes) THEN [parts |-> <<>>, attachments |-> <<>>]
    ELSE LET mime == MimeTypes[i] IN
         IF mime \notin DOMAIN data THEN ScanMimes(data, i + 1)
         ELSE IF mime = "image/png"
              THEN [parts |-> <<>>, attachments |-> <<data[mime]>>]
         ELSE IF mime = "text/plain"
              THEN LET rest == ScanMimes(data, i + 1)
                   IN  [parts |-> <<Fenced(data[mime])>> \o rest.parts,
                        attachments |-> rest.attachments]
         ELSE [parts |-> <<data[mime]>>, attachments |-> <<>>]

RECURSIVE ScanOutputs(_)
\* The outer loop over captured.outputs.
ScanOutputs(outputs) ==
    IF outputs = <<>> THEN [parts |-> <<>>, attachments |-> <<>>]
    ELSE LET first == ScanMimes(outputs[1], 1)
             rest == ScanOutputs(Tail(outputs))
         IN  [parts |-> first.parts \o rest.parts,
              attachments |-> first.attachments \o rest.attachments]

\* The message list of the executing branch, before it is joined.
CellMessageList(m) ==
    <<MessageHead(LineMessage(m.line))>>
        \o (IF m.line.input THEN <<FormattedSource(m.cell[2])>> ELSE <<>>)
        \o ExtendedBy(m.captured.stdout)
        \o ScanOutputs(m.captured.outputs).parts

\* b64decode(attachments[0]) if attachments else None
CellAttachment(attachments) ==
    IF attachments = <<>> THEN None ELSE <<"bytes", B64Decode(attachments[1])>>

\* The magic returns or raises without calling post().
MagicRaises(exc, ran) ==
    client' = [client EXCEPT !.phase = "done", !.raised = Some(exc), !.ran = ran]

\* The magic calls post().
MagicCalls(message, attachment, ran) ==
    client' = [client EXCEPT !.phase = "post", !.ran = ran, !.calls = @ + 1,
                !.call = Some(PostArgs(message, client.magic.line.channel, attachment,
                                       client.magic.line.url, client.magic.line.token))]

\* JupyterpostMagics.post(line, cell) up to its call of post().
MagicPost ==
    /\ client.phase = "magic"
    /\ LET m == client.magic
           message == LineMessage(m.line)
       IN  IF m.cell = None
           THEN IF Len(message) = 0
                THEN MagicRaises(ValueError(<<"No message given">>), 0)
                ELSE MagicCalls(message, None, 0)
           ELSE IF m.line.raw
           THEN MagicCalls(RawMessage(MessageHead(message), m.cell[2]), None, RunCells(m.line))
           ELSE LET joined_message == StrJoin(NL, CellMessageList(m))
                    attachments == ScanOutputs(m.captured.outputs).attachments
                IN  IF Len(joined_message) = 0 /\ attachments = <<>>
                    THEN MagicRaises(ValueError(<<"No message or attachments given">>),
                                     RunCells(m.line))
                    ELSE MagicCalls(joined_message, CellAttachment(attachments),
                                    RunCells(m.line))
    /\ UNCHANGED <<hubcfg, environ, pc, args, local, result, log, platform>>

\* ------------------------------------------------------------- post()
\* service_url = service_url or os.getenv(...): an Optional again.
OrEnv(opt, fromenv) == IF Truthy(opt) THEN opt ELSE fromenv

\* Python truthiness of what post() takes as attachment.
AttachmentGiven(a) == a # None /\ (a[1] = "figure" \/ Len(a[2]) > 0)

\* The attachment sent as it is, whatever it is.
Validation_NoTypeCheck(c, env) ==
    LET service_url == OrEnv(c.service_url, env.JUPYTERPOST_URL)
        token == OrEnv(c.token, env.JPY_API_TOKEN)
    IN  IF ~Truthy(service_url) THEN Some(ValueError(<<"No service URL given">>))
        ELSE IF ~Truthy(token) THEN Some(ValueError(<<"No API token given">>))
        ELSE None

\* post() before its request: what it raises, if anything.
Validation(c, env) ==
    LET service_url == OrEnv(c.service_url, env.JUPYTERPOST_URL)
        token == OrEnv(c.token, env.JPY_API_TOKEN)
    IN  IF ~Truthy(service_url) THEN Some(ValueError(<<"No service URL given">>))
        ELSE IF ~Truthy(token) THEN Some(ValueError(<<"No API token given">>))
        ELSE IF AttachmentGiven(c.attachment) /\ c.attachment[1] \notin {"bytes", "figure"}
        THEN Some(TypeError(<<"attachment must be a bytes object or matplotlib figure">>))
        ELSE None

\* The attachment as bytes: a figure is saved as png into a buffer.
AttachmentBytes(a) == a[2]

\* httpx.post(service_url, headers=..., data=..., files=...)
HttpRequest(c, env) ==
    [url |-> OrEnv(c.service_url, env.JUPYTERPOST_URL)[2],
     authorization |-> <<"token ">> \o OrEnv(c.token, env.JPY_API_TOKEN)[2],
     data |-> [message |-> c.message, channel |-> c.channel],
     files |-> IF AttachmentGiven(c.attachment)
               THEN Some(AttachmentBytes(c.attachment)) ELSE None]

\* What the service may answer.
ServiceResponses ==
    {Resp(200, <<>>), Resp(400, <<"general does not exist or is private">>), Resp(500, <<>>)}

\* post(message, channel, attachment, service_url, token)
ClientPost ==
    /\ client.phase = "post"
    /\ LET c == client.call[2]
           invalid == Validation(c, client.env)
       IN  IF invalid # None
           THEN client' = [client EXCEPT !.phase = "done", !.raised = invalid]
           ELSE \E response \in ServiceResponses :
                  client' = [client EXCEPT
                      !.phase = "done",
                      !.sent = Append(@, HttpRequest(c, client.env)),
                      !.raised = IF Is2xx(response) THEN None
                                 ELSE Some(ValueError(response.body))]
    /\ UNCHANGED <<hubcfg, environ, pc, args, local, result, log, platform>>

NextClient == MagicPost \/ ClientPost

SpecClient == InitClient /\ [][NextClient]_vars


\* ======================================================================
\* The hub side: configure_jupyterhub
\* ======================================================================
\* Role names are spelled character by character, since the code tests them
\* with Python's `in` on a string.

\* Number of roles the hub's configuration holds before the call, at most.
MaxRoles == 3

Role(name, scopes) == [name |-> name, scopes |-> scopes]
User == <<"u", "s", "e", "r">>
Server == <<"s", "e", "r", "v", "e", "r">>
\* The literal "user server" of the filter.
UserServer == User \o <<" ">> \o Server
AccessScope == <<"access:services!service=jupyterpost">>

\* jupyterhub.roles.get_default_roles(), as far as the code reads it.
DefaultRoles ==
    <<Role(User, <<<<"self">>>>),
      Role(<<"a", "d", "m", "i", "n">>, <<<<"admin-ui">>>>),
      Role(Server, <<<<"users:activity!user">>>>)>>

\* The roles an administrator may have put in c.JupyterHub.load_roles; the
\* names within one list are distinct.
ConfiguredRoles ==
    {Role(User, <<<<"self">>, <<"read:users">>>>),
     Role(Server, <<<<"access:servers!server">>>>),
     Role(<<"a", "d", "m", "i", "n">>, <<<<"admin-ui">>>>),
     Role(<<"s", "e", "r", "v", "e">>, <<<<"read:servers">>>>),
     Role(<<"o", "p", "s">>, <<<<"list:users">>>>)}
RoleLists ==
    {l \in UNION {[1..n -> ConfiguredRoles] : n \in 0..MaxRoles} :
        \A i, j \in DOMAIN l : l[i].name = l[j].name => i = j}

\* {r["name"]: r for r in roles}[name], or the default: the last role of
\* that name.
RoleNamed(roles, name, default) ==
    LET at == {i \in DOMAIN roles : roles[i].name = name}
    IN  IF at = {} THEN default ELSE roles[CHOOSE i \in at : \A j \in at : j <= i]

\* The keys of {r["name"]: r for r in roles}, in the dict's order: each name
\* where it first occurs.
RECURSIVE DictKeys(_)
DictKeys(roles) ==
    IF roles = <<>> THEN <<>>
    ELSE LET init == DictKeys(SubSeq(roles, 1, Len(roles) - 1))
             name == roles[Len(roles)].name
         IN  IF \E i \in DOMAIN init : init[i] = name THEN init ELSE Append(init, name)

\* name in "user server": Python's `in` on two strings looks for a substring.
IsIn(name, text) ==
    \E i \in 0..(Len(text) - Len(name)) : SubSeq(text, i + 1, i + Len(name)) = name

\* role["scopes"].append("access:services!service=jupyterpost")
WithAccess(role) == [role EXCEPT !.scopes = Append(@, AccessScope)]

\* [r for name, r in roles.items() if name not in "user server"]
OtherRoles(roles) ==
    LET keys == DictKeys(roles)
        kept == SelectSeq(keys, LAMBDA name : ~IsIn(name, UserServer))
    IN  [i \in DOMAIN kept |-> RoleNamed(roles, kept[i], Role(kept[i], <<>>))]

\* The jupyterpost entry of c.JupyterHub.services.
Service == [name |-> <<"jupyterpost">>, command |-> <<"jupyterpost">>]

InitConfigure ==
    /\ ServiceIdle
    /\ chanState = [c \in ChannelNames |-> "public"]
    /\ client = NoInvocation
    /\ \E roles \in RoleLists :
          hubcfg = [phase |-> "given", given |-> roles, load_roles |-> roles,
                    services |-> <<>>, spawner |-> {}]

\* configure_jupyterhub(c, ...)
Configure ==
    /\ hubcfg.phase = "given"
    /\ LET roles == hubcfg.load_roles
           user_role == WithAccess(RoleNamed(roles, User, DefaultRoles[1]))
           server_role == WithAccess(RoleNamed(roles, Server, DefaultRoles[3]))
       IN  hubcfg' = [hubcfg EXCEPT
                        !.phase = "configured",
                        !.services = Append(@, Service),
                        !.load_roles = OtherRoles(roles) \o <<user_role, server_role>>,
                        !.spawner = @ \cup {"JUPYTERPOST_URL"}]
    /\ UNCHANGED <<client, environ, pc, args, local, result, log, platform>>

NextConfigure == Configure

SpecConfigure == InitConfigure /\ [][NextConfigure]_vars


\* ======================================================================
\* Properties
\* ======================================================================
Ok(e) == e.status \in {200, 201}
Called(r, call) == {i \in DOMAIN log[r] : log[r][i].call = call}
FailedAt(r, call) == {i \in Called(r, call) : ~Ok(log[r][i])}
Failed(outcome) == outcome.kind \in {"ValueError", "HTTPStatusError"}

\* The failure kinds of the design, as the service raises them.
HasToken(msg, t) == \E i \in DOMAIN msg : msg[i] = t
IsDestinationNotFound(outcome) ==
    /\ outcome.kind = "ValueError"
    /\ \/ HasToken(outcome.msg, " does not exist")
       \/ HasToken(outcome.msg, " does not exist or is private")
IsNotAuthorizedMember(outcome) ==
    /\ outcome.kind = "ValueError"
    /\ HasToken(outcome.msg, " is not a member of ")
IsUpstreamError(outcome) == outcome.kind = "HTTPStatusError"

\* The membership step of a request that has come to index i of its log:
\* the direct channel obtained, or the resolved named channel joined.
MembershipBefore(r, i) ==
    IF StartsWithAt(args[r].channel)
    THEN \E j \in 1..(i - 1) :
            /\ log[r][j].call = "channels/direct"
            /\ Ok(log[r][j])
            /\ log[r][j].note = local[r].channel.id
    ELSE \E j \in 1..(i - 1) : \E k \in 1..(j - 1) :
            /\ log[r][k].call = "channels/name" /\ Ok(log[r][k])
            /\ log[r][j].call = "channels/members" /\ Ok(log[r][j])
            /\ log[r][j].note = log[r][k].note

\* C1: the posts call of a request is issued only after its join of the
\* resolved named channel, or its channels/direct call, has returned
\* successfully; every post the platform holds was created by such a request.
C1_PostOnlyAfterMembership ==
    /\ \A r \in Requests : \A i \in Called(r, "posts") : MembershipBefore(r, i)
    /\ \A r \in Requests : pc[r] = "posts" => MembershipBefore(r, Len(log[r]) + 1)
    /\ \A p \in posts : \E r \in Requests : \E i \in Called(r, "posts") :
            Ok(log[r][i]) /\ log[r][i].note = p.id /\ MembershipBefore(r, i)

C1_Witness ==
    \E r1, r2 \in Requests :
        /\ result[r1].kind = "return" /\ StartsWithAt(args[r1].channel)
        /\ result[r2].kind = "return" /\ ~StartsWithAt(args[r2].channel)

\* C2: fail-fast.  A failed call is the last call of its request, and the
\* request ends in failure with it; a failed upload ends the request with the
\* upstream error and the request creates no post.
C2_FailFast ==
    \A r \in Requests :
        /\ \A i \in DOMAIN log[r] :
              ~Ok(log[r][i]) => /\ i = Len(log[r])
                                /\ pc[r] = "done"
                                /\ Failed(result[r])
        /\ FailedAt(r, "files") # {} =>
              /\ IsUpstreamError(result[r])
              /\ Called(r, "posts") = {}
              /\ \A p \in posts : \E q \in Requests \ {r} : \E i \in Called(q, "posts") :
                    log[q][i].note = p.id

C2_Witness ==
    \E r \in Requests : FailedAt(r, "files") # {} /\ pc[r] = "done"

\* C3: a user lookup answered 404 ends the request with DestinationNotFound
\* ("@name does not exist"); the lookup is the request's last call, so there
\* is no team lookup, membership check, direct channel, upload or post.
C3_UserNotFound ==
    \A r \in Requests :
        FailedAt(r, "users/username") # {} /\ log[r][Len(log[r])].status = 404 =>
            /\ pc[r] = "done"
            /\ result[r] = ValueError(args[r].channel \o <<" does not exist">>)
            /\ IsDestinationNotFound(result[r])
            /\ HandlerResponse(result[r]).status = 400
            /\ [i \in DOMAIN log[r] |-> log[r][i].call] = <<"users/me", "users/username">>
            /\ \A p \in posts : \E q \in Requests \ {r} : \E i \in Called(q, "posts") :
                    log[q][i].note = p.id

C3_Witness ==
    \E r \in Requests :
        /\ args[r].channel = <<"@", "ghost">>
        /\ FailedAt(r, "users/username") # {}
        /\ log[r][Len(log[r])].status = 404
        /\ pc[r] = "done"

\* C4: a membership check answered 404 ends the request with
\* NotAuthorizedMember ("@name is not a member of team"), which is not
\* DestinationNotFound; the check is the request's last call.
C4_NotAuthorizedMember ==
    \A r \in Requests :
        FailedAt(r, "teams/members") # {} /\ log[r][Len(log[r])].status = 404 =>
            /\ pc[r] = "done"
            /\ result[r] = ValueError(args[r].channel \o <<" is not a member of ">>
                                      \o local[r].team_name)
            /\ IsNotAuthorizedMember(result[r])
            /\ ~IsDestinationNotFound(result[r])
            /\ [i \in DOMAIN log[r] |-> log[r][i].call] =
                    <<"users/me", "users/username", "teams/name", "teams/members">>

C4_Witness ==
    \E r \in Requests :
        /\ args[r].channel = <<"@", "bob">>
        /\ FailedAt(r, "teams/members") # {}
        /\ log[r][Len(log[r])].status = 404
        /\ pc[r] = "done"

\* C5 as claimed: a team lookup answered 404 ends the request with the typed
\* failure DestinationNotFound, and nothing follows the lookup.
C5_TeamNotFoundTyped ==
    \A r \in Requests :
        FailedAt(r, "teams/name") # {} /\ log[r][Len(log[r])].status = 404 =>
            /\ pc[r] = "done"
            /\ IsDestinationNotFound(result[r])
            /\ ~IsUpstreamError(result[r])
            /\ [i \in DOMAIN log[r] |-> log[r][i].call] =
                    <<"users/me", "users/username", "teams/name">>

\* C5 as the code has it: a team lookup answered 404 ends the request with
\* the platform's HTTP status error (status 404), untyped, which the handler
\* turns into a 500; nothing follows the lookup.
C5_TeamNotFoundPropagates ==
    \A r \in Requests :
        FailedAt(r, "teams/name") # {} /\ log[r][Len(log[r])].status = 404 =>
            /\ pc[r] = "done"
            /\ IsUpstreamError(result[r])
            /\ result[r].status = 404
            /\ ~IsDestinationNotFound(result[r])
            /\ HandlerResponse(result[r]).status = 500
            /\ [i \in DOMAIN log[r] |-> log[r][i].call] =
                    <<"users/me", "users/username", "teams/name">>

C5_Witness ==
    \E r \in Requests :
        /\ StartsWithAt(args[r].channel)
        /\ local[r].other # None
        /\ FailedAt(r, "teams/name") # {}
        /\ log[r][Len(log[r])].status = 404
        /\ pc[r] = "done"


CallNames(r) == [i \in DOMAIN log[r] |-> log[r][i].call]
IsPrefix(s, t) == Len(s) <= Len(t) /\ \A i \in DOMAIN s : s[i] = t[i]

LookupNotFound(r) ==
    FailedAt(r, "channels/name") # {} /\ log[r][Len(log[r])].status = 404

\* C6: non-disclosure.  Two requests with the same arguments whose channel
\* lookup is answered 404, whatever the platform's reason (the channel is
\* absent, or private to the bot), end with the same outcome and the same
\* response to the caller, DestinationNotFound, and call nothing after the
\* lookup.
C6_NonDisclosure ==
    \A r1, r2 \in Requests :
        LookupNotFound(r1) /\ LookupNotFound(r2) /\ args[r1] = args[r2] =>
            /\ result[r1] = result[r2]
            /\ HandlerResponse(result[r1]) = HandlerResponse(result[r2])
            /\ IsDestinationNotFound(result[r1])
            /\ result[r1].msg = args[r1].channel \o <<" does not exist or is private">>
            /\ CallNames(r1) = <<"users/me", "channels/name">>
            /\ CallNames(r2) = <<"users/me", "channels/name">>

C6_Witness ==
    \E r1, r2 \in Requests :
        /\ LookupNotFound(r1) /\ LookupNotFound(r2) /\ args[r1] = args[r2]
        /\ log[r1][2].note = <<"channel not found">>
        /\ log[r2][2].note = <<"channel is private">>

\* C7 as claimed: a request that created its post made no upload and posted
\* an empty file list when no attachment was supplied, and made exactly one
\* upload and posted exactly that file's id when attachment bytes of any
\* length were supplied; no post has more than one file.
C7_FileReferences ==
    \A r \in Requests :
        result[r].kind = "return" =>
            LET post == result[r].value
                uploads == Called(r, "files")
            IN  /\ Len(post.file_ids) <= 1
                /\ args[r].file_ = None =>
                      post.file_ids = <<>> /\ uploads = {}
                /\ args[r].file_ # None =>
                      /\ Cardinality(uploads) = 1
                      /\ \A u \in uploads : post.file_ids = <<log[r][u].note>>

\* C8: when the upload succeeded and the post failed, the request has ended
\* in failure, the uploaded file is still on the platform, and the failed
\* post is the request's last call and its only posts call.
C8_OrphanedUpload ==
    \A r \in Requests : \A u \in Called(r, "files") :
        Ok(log[r][u]) /\ FailedAt(r, "posts") # {} =>
            /\ pc[r] = "done"
            /\ Failed(result[r])
            /\ \E f \in files : f.id = log[r][u].note
            /\ Called(r, "posts") = {Len(log[r])}
            /\ Called(r, "files") = {u}

C8_Witness ==
    \E r \in Requests : \E u \in Called(r, "files") :
        Ok(log[r][u]) /\ FailedAt(r, "posts") # {} /\ pc[r] = "done"

Resolution(channel) ==
    IF StartsWithAt(channel)
    THEN <<"users/username", "teams/name", "teams/members", "channels/direct">>
    ELSE <<"channels/name", "channels/members">>

\* C9: the calls of a request come in the fixed order, each at most once:
\* users/me, then the four calls of a direct destination or the two of a
\* named one, then the upload if there is one, then the post.  The call a
\* running request awaits is the next of that order, and no request is past
\* its first step without a users/me call of its own.
C9_CallOrder ==
    \A r \in Requests :
        LET withFile == <<"users/me">> \o Resolution(args[r].channel) \o <<"files", "posts">>
            without == <<"users/me">> \o Resolution(args[r].channel) \o <<"posts">>
            n == Len(log[r])
        IN  /\ pc[r] = "idle" => log[r] = <<>>
            /\ pc[r] # "idle" =>
                  \/ IsPrefix(CallNames(r), withFile)
                  \/ IsPrefix(CallNames(r), without)
            /\ pc[r] \notin {"idle", "users/me"} => n >= 1 /\ log[r][1].call = "users/me"
            /\ pc[r] \notin {"idle", "done"} =>
                  \/ n < Len(withFile) /\ IsPrefix(CallNames(r), withFile) /\ pc[r] = withFile[n + 1]
                  \/ n < Len(without) /\ IsPrefix(CallNames(r), without) /\ pc[r] = without[n + 1]

C9_Witness ==
    \E r1, r2 \in Requests :
        /\ result[r1].kind = "return" /\ result[r2].kind = "return"
        /\ CallNames(r1) = <<"users/me", "users/username", "teams/name", "teams/members",
                             "channels/direct", "files", "posts">>
        /\ CallNames(r2) = <<"users/me", "channels/name", "channels/members", "posts">>

DirectResolved(r) ==
    /\ StartsWithAt(args[r].channel)
    /\ \E i \in Called(r, "channels/direct") : Ok(log[r][i])

\* C10: every request to "@user" that has obtained its direct channel holds
\* the id of the one direct channel of the bot and that user; two such
\* requests hold the same id, and the posts they create are in that channel.
C10_SameDirectChannel ==
    /\ \A r \in Requests :
          DirectResolved(r) =>
              LET pair == {BotId, UserId(Username(args[r].channel))}
              IN  /\ Cardinality(DirectOf(pair)) = 1
                  /\ \A d \in DirectOf(pair) :
                        /\ local[r].channel.id = d.id
                        /\ result[r].kind = "return" =>
                              /\ result[r].value.channel_id = d.id
                              /\ result[r].value \in posts
    /\ \A r1, r2 \in Requests :
          /\ DirectResolved(r1) /\ DirectResolved(r2)
          /\ args[r1].channel = args[r2].channel
          => local[r1].channel.id = local[r2].channel.id

C10_Witness ==
    \E r1, r2 \in Requests :
        /\ r1 # r2
        /\ result[r1].kind = "return" /\ result[r2].kind = "return"
        /\ args[r1].channel = <<"@", "alice">> /\ args[r2].channel = <<"@", "alice">>
        /\ result[r1].value.id # result[r2].value.id


\* A step in which request r's join is served.
JoinSteps(r) == pc[r] = "channels/members" /\ pc'[r] # pc[r]

\* C11: a request for a visible named channel issues the join after its
\* lookup whether or not the bot is in the channel already; a join served
\* while the bot is a member is not refused by the platform (only a fault can
\* fail it), leaves the bot's memberships as they were, and is followed by
\* the same step (upload or post) as a join that made the bot a member.
C11_IdempotentJoin ==
    [][\A r \in Requests :
        /\ (pc[r] = "channels/name" /\ pc'[r] \notin {"channels/name", "done"})
              => pc'[r] = "channels/members"
        /\ JoinSteps(r) =>
              /\ Len(log'[r]) = Len(log[r]) + 1
              /\ log'[r][Len(log'[r])].call = "channels/members"
              /\ Ok(log'[r][Len(log'[r])]) => pc'[r] = NextAfterResolve(args[r].file_)
        /\ (JoinSteps(r) /\ local[r].channel.id \in joined) =>
              /\ log'[r][Len(log'[r])].status \in {201, Fault.status}
              /\ joined' = joined]_vars

C11_Witness ==
    \E r \in Requests :
        /\ result[r].kind = "return"
        /\ \E i \in Called(r, "channels/members") : Ok(log[r][i]) /\ log[r][i].member
        /\ \E q \in Requests \ {r} :
              /\ result[q].kind = "return"
              /\ \E i \in Called(q, "channels/members") : Ok(log[q][i]) /\ ~log[q][i].member
              /\ [i \in DOMAIN log[q] |-> log[q][i].call] = [i \in DOMAIN log[r] |-> log[r][i].call]

\* The last call a request issued.
LastCall(r) == log[r][Len(log[r])]

GuardedLookups == {"users/username", "teams/members", "channels/name"}

\* C13: when the user lookup, the membership check or the channel lookup
\* fails with a status that is neither 2xx nor 404, the request ends there
\* (that call is its last) with the platform's HTTP status error carrying
\* that status: an UpstreamError, never DestinationNotFound or
\* NotAuthorizedMember.
C13_UpstreamError ==
    \A r \in Requests : \A c \in GuardedLookups : \A i \in FailedAt(r, c) :
        log[r][i].status # 404 =>
            /\ i = Len(log[r])
            /\ pc[r] = "done"
            /\ IsUpstreamError(result[r])
            /\ result[r].status = log[r][i].status
            /\ ~IsDestinationNotFound(result[r])
            /\ ~IsNotAuthorizedMember(result[r])

C13_Witness ==
    \E r, q \in Requests :
        /\ \E i \in FailedAt(r, "channels/name") : log[r][i].status = 500
        /\ \E i \in FailedAt(q, "teams/members") : log[q][i].status = 500
        /\ IsUpstreamError(result[r]) /\ IsUpstreamError(result[q])

\* ---------------------------------------------- a request run on its own
\* The calls hub_post_message(a) makes, with their statuses, when it is the
\* only request and no call meets a fault: the code's order of calls, each
\* answered by the platform, up to the first call that fails.
Call(c, resp) == [call |-> c, status |-> resp.status]
AloneTail(a) ==
    (IF Truthy(a.file_) THEN <<[call |-> "files", status |-> 201]>> ELSE <<>>)
        \o <<[call |-> "posts", status |-> 201]>>
AloneAll(a, team) ==
    IF StartsWithAt(a.channel)
    THEN <<Call("users/me", PlatformUsersMe),
           Call("users/username", PlatformUserByName(Username(a.channel))),
           Call("teams/name", PlatformTeamByName(team)),
           Call("teams/members", PlatformTeamMember(TeamId(team), UserId(Username(a.channel)))),
           [call |-> "channels/direct", status |-> 201]>> \o AloneTail(a)
    ELSE <<Call("users/me", PlatformUsersMe),
           Call("channels/name", PlatformChannelByName(team, a.channel)),
           Call("channels/members", PlatformJoin(ChannelId(a.channel)))>> \o AloneTail(a)
RunAlone(a, team) ==
    LET all == AloneAll(a, team)
        bad == {i \in DOMAIN all : ~Ok(all[i])}
    IN  IF bad = {} THEN all
        ELSE SubSeq(all, 1, CHOOSE i \in bad : \A j \in bad : i <= j)

\* What the request run on its own ends with: a return after its post, or
\* what the code raises for the call that failed.
AloneOutcomeIs(a, team, outcome) ==
    LET run == RunAlone(a, team)
        last == run[Len(run)]
    IN  CASE Ok(last) -> outcome.kind = "return"
          [] last.call = "users/username" ->
                outcome = UserLookupFailure(a.channel, PlatformUserByName(Username(a.channel)))
          [] last.call = "teams/name" ->
                outcome = TeamLookupFailure(a.channel, PlatformTeamByName(team))
          [] last.call = "teams/members" ->
                outcome = MemberCheckFailure(a.channel, team,
                            PlatformTeamMember(TeamId(team), UserId(Username(a.channel))))
          [] last.call = "channels/name" ->
                outcome = ChannelLookupFailure(a.channel, PlatformChannelByName(team, a.channel))
          [] OTHER -> FALSE

\* The calls of request r so far, with their statuses.
Trace(r) == [i \in DOMAIN log[r] |-> [call |-> log[r][i].call, status |-> log[r][i].status]]

\* Request r is where the same request run alone would be after as many
\* calls: the same calls with the same statuses, then the same next call or
\* the same outcome; or a fault has taken the place of its last call.
AsAlone(r) ==
    LET run == RunAlone(args[r], local[r].team_name)
        n == Len(log[r])
    IN  \/ /\ n <= Len(run)
           /\ Trace(r) = SubSeq(run, 1, n)
           /\ n < Len(run) => pc[r] = run[n + 1].call /\ result[r] = NoResult
           /\ n = Len(run) => pc[r] = "done" /\ AloneOutcomeIs(args[r], local[r].team_name, result[r])
        \/ /\ n \in 1..Len(run)
           /\ SubSeq(Trace(r), 1, n - 1) = SubSeq(run, 1, n - 1)
           /\ Trace(r)[n] = [call |-> run[n].call, status |-> Fault.status]
           /\ pc[r] = "done"
           /\ result[r] = HTTPStatusError(Fault)

\* A step of request r: it has moved on, or logged a call.
Steps(r) == pc'[r] # pc[r] \/ Len(log'[r]) # Len(log[r])

\* Every value a step stores in request r's locals is the one the call that
\* r itself has just made returned.
ReadsOwn(r) ==
    LET e == log'[r][Len(log'[r])]
        served(calls) == /\ Len(log'[r]) = Len(log[r]) + 1
                         /\ e.call \in calls /\ Ok(e)
    IN  /\ local'[r].me # local[r].me => served({"users/me"}) /\ local'[r].me = e.note
        /\ local'[r].other # local[r].other => served({"users/username"}) /\ local'[r].other = e.note
        /\ local'[r].team_id # local[r].team_id => served({"teams/name"}) /\ local'[r].team_id = e.note
        /\ local'[r].file_ids # local[r].file_ids => served({"files"}) /\ local'[r].file_ids = <<e.note>>
        /\ (pc[r] \in {"channels/direct", "channels/name"} /\ pc'[r] \notin {pc[r], "done"}) =>
              served({pc[r]}) /\ local'[r].channel.id = e.note

\* C14: on a platform nobody else changes, however the requests interleave,
\* each request makes the calls, meets the statuses and ends with the outcome
\* of the same request run alone; a step belongs to one request and changes
\* no other request's state; what it stores comes from that request's own
\* call; and the process environment (token, base URL, default team) stays
\* as it was.
C14_Independent ==
    [][/\ environ' = environ
       /\ \A r \in Requests :
            /\ pc'[r] # "idle" => AsAlone(r)'
            /\ Steps(r) => ReadsOwn(r) /\ \A q \in Requests \ {r} : ~Steps(q)]_vars

C14_Witness ==
    \E r \in Requests : \E q \in Requests \ {r} :
        /\ result[r].kind = "return" /\ result[q].kind = "return"
        /\ args[r].channel = args[q].channel
        /\ \E i \in Called(r, "files") : \E j \in Called(q, "posts") : \E k \in Called(r, "posts") :
              /\ log[r][i].note[2] < log[q][j].note[2]
              /\ log[q][j].note[2] < log[r][k].note[2]

\* The step in which request r, sent to "@user", creates its post.
PostsDirect(r) ==
    /\ pc[r] = "posts"
    /\ StartsWithAt(args[r].channel)
    /\ posts' # posts

\* C16 (as stated): whenever a request to "@user" creates its post, the
\* user is a member of the team at that moment, whatever the platform did to
\* the team's memberships while the request was in flight.
C16_MemberWhenPosted ==
    [][\A r \in Requests :
        PostsDirect(r) => local[r].other \in members'[local[r].team_id]]_vars

\* C16 (amended): a request to "@user" creates its post only after its own
\* membership check of that user has succeeded, and the check succeeds only
\* for a user who is a member of the team when the check is served; the
\* check is made once, so a removal after it goes unnoticed.
C16_MemberWhenChecked ==
    [][\A r \in Requests :
        /\ (pc[r] = "teams/members" /\ pc'[r] = "channels/direct")
              => local[r].other \in members[local[r].team_id]
        /\ PostsDirect(r) =>
              /\ Cardinality(Called(r, "teams/members")) = 1
              /\ \A j \in Called(r, "teams/members") :
                    Ok(log[r][j]) /\ log[r][j].note = local[r].other]_vars

C16_Witness ==
    \E r \in Requests :
        /\ StartsWithAt(args[r].channel)
        /\ result[r].kind = "return"
        /\ local[r].other \notin members[local[r].team_id]
        /\ \E j \in Called(r, "teams/members") : Ok(log[r][j])

\* The magic has run, as a cell magic, with or without --raw.
RanAsCell(raw) ==
    /\ client.phase # "magic"
    /\ client.magic.cell # None
    /\ client.magic.line.raw = raw

\* C15: %post on a cell with --raw does not run the cell; it calls post()
\* once, with the line message (the placeholder when that is empty), a
\* newline and the cell source as it stands, and with no attachment, so that
\* no request carries a file.
C15_RawNeverRuns ==
    RanAsCell(TRUE) =>
        LET m == client.magic IN
        /\ client.ran = 0
        /\ client.calls = 1
        /\ client.call = Some(PostArgs(
                (IF LineMessage(m.line) = <<>> THEN Placeholder ELSE LineMessage(m.line))
                    \o <<"\n">> \o m.cell[2],
                m.line.channel, None, m.line.url, m.line.token))
        /\ Len(client.sent) <= 1
        /\ \A i \in DOMAIN client.sent : client.sent[i].files = None

C15_Witness ==
    /\ RanAsCell(TRUE)
    /\ client.phase = "done"
    /\ client.magic.line.message = <<>>
    /\ client.magic.captured.outputs # <<>>
    /\ Len(client.sent) = 1
    /\ client.ran = 0

\* The magic has raised the ValueError with this message, without having
\* called post().
RefusedWith(msg) ==
    /\ client.phase = "done"
    /\ client.raised = Some(ValueError(msg))
    /\ client.calls = 0
    /\ client.call = None
    /\ client.sent = <<>>

\* C17: %post dispatches nothing without content.  As a line magic with an
\* empty message it raises ValueError("No message given"); as a cell magic
\* without --raw, with an empty line message and a cell that leaves no
\* stdout and no outputs (hence no image), it raises ValueError("No message
\* or attachments given"); post() is called in neither case.
C17_NoEmptyDispatch ==
    LET m == client.magic IN
    /\ (client.phase # "magic" /\ client.calls = 0 /\ m.cell = None /\ m.line.message = <<>>)
          => RefusedWith(<<"No message given">>)
    /\ (RanAsCell(FALSE) /\ m.line.message = <<>>
            /\ m.captured.stdout = <<>> /\ m.captured.outputs = <<>>)
          => RefusedWith(<<"No message or attachments given">>)

\* The parts the outputs add to the message: for an output shown as text its
\* markdown or latex as it is, else its plain text inside a fence.
RECURSIVE OutputParts(_)
OutputParts(outputs) ==
    IF outputs = <<>> THEN <<>>
    ELSE LET data == outputs[1]
             part == IF "image/png" \in DOMAIN data THEN <<>>
                     ELSE IF "text/markdown" \in DOMAIN data THEN <<data["text/markdown"]>>
                     ELSE IF "text/latex" \in DOMAIN data THEN <<data["text/latex"]>>
                     ELSE IF "text/plain" \in DOMAIN data THEN <<Fenced(data["text/plain"])>>
                     ELSE <<>>
         IN  part \o OutputParts(Tail(outputs))

\* The png outputs, in the order captured.
RECURSIVE PngOutputs(_)
PngOutputs(outputs) ==
    IF outputs = <<>> THEN <<>>
    ELSE (IF "image/png" \in DOMAIN outputs[1] THEN <<outputs[1]["image/png"]>> ELSE <<>>)
            \o PngOutputs(Tail(outputs))

\* C18: as a cell magic without --raw, the message %post sends is, joined by
\* single newlines and in this order: the line message (or the placeholder),
\* the formatted cell source if --input is given, the captured stdout as one
\* block as it was printed, then one part per output (markdown and latex as
\* they are, plain text fenced); the attachment is the first png output,
\* decoded, if there is one.
C18_MessageParts ==
    (RanAsCell(FALSE) /\ client.calls = 1) =>
        LET m == client.magic
            head == IF LineMessage(m.line) = <<>> THEN Placeholder ELSE LineMessage(m.line)
            parts == <<head>>
                        \o (IF m.line.input THEN <<FormattedSource(m.cell[2])>> ELSE <<>>)
                        \o (IF m.captured.stdout = <<>> THEN <<>> ELSE <<m.captured.stdout>>)
                        \o OutputParts(m.captured.outputs)
            pngs == PngOutputs(m.captured.outputs)
        IN  /\ client.call[2].message = StrJoin(NL, parts)
            /\ client.call[2].attachment =
                  (IF pngs = <<>> THEN None ELSE <<"bytes", B64Decode(pngs[1])>>)

\* post() has run on the call c in the environment env.
PostRan == client.phase = "done" /\ client.call # None

\* What post() has to go by: the argument, else the environment variable.
Available(opt, fromenv) == Truthy(opt) \/ Truthy(fromenv)

\* An attachment that is given and is neither bytes nor has savefig.
Unusable(a) == a # None /\ a[1] = "str" /\ Len(a[2]) > 0

\* C19: post() checks before it sends.  With no service URL (argument and
\* JUPYTERPOST_URL both empty) or no token (argument and JPY_API_TOKEN both
\* empty) it raises ValueError; with both there and a non-empty attachment
\* that is neither bytes nor an object with savefig it raises TypeError; in
\* each of these cases no HTTP request is sent.  Otherwise it sends one.
C19_ValidatesBeforeSending ==
    PostRan =>
        LET c == client.call[2]
            url == Available(c.service_url, client.env.JUPYTERPOST_URL)
            token == Available(c.token, client.env.JPY_API_TOKEN)
        IN  /\ ~url => /\ client.raised = Some(ValueError(<<"No service URL given">>))
                       /\ client.sent = <<>>
            /\ (url /\ ~token) =>
                       /\ client.raised = Some(ValueError(<<"No API token given">>))
                       /\ client.sent = <<>>
            /\ (url /\ token /\ Unusable(c.attachment)) =>
                       /\ client.raised # None
                       /\ client.raised[2].kind = "TypeError"
                       /\ client.sent = <<>>
            /\ (url /\ token /\ ~Unusable(c.attachment)) => Len(client.sent) = 1

C19_Witness ==
    /\ PostRan
    /\ client.magic = NoMagic
    /\ client.call[2].service_url = None
    /\ Available(client.call[2].service_url, client.env.JUPYTERPOST_URL)
    /\ Available(client.call[2].token, client.env.JPY_API_TOKEN)
    /\ Unusable(client.call[2].attachment)
    /\ client.raised =
          Some(TypeError(<<"attachment must be a bytes object or matplotlib figure">>))
    /\ client.sent = <<>>

\* The roles of the configuration with this name.
RolesNamed(roles, name) == {i \in DOMAIN roles : roles[i].name = name}

\* C20: after configure_jupyterhub, load_roles holds every role that was
\* configured before under a name other than "user" and "server", as it was,
\* and one role named "user" and one named "server", each with the scope
\* access:services!service=jupyterpost.
C20_RolesPreserved ==
    hubcfg.phase = "configured" =>
        /\ \A i \in DOMAIN hubcfg.given :
              hubcfg.given[i].name \notin {User, Server} =>
                  \E j \in DOMAIN hubcfg.load_roles : hubcfg.load_roles[j] = hubcfg.given[i]
        /\ \A name \in {User, Server} :
              /\ Cardinality(RolesNamed(hubcfg.load_roles, name)) = 1
              /\ \A j \in RolesNamed(hubcfg.load_roles, name) :
                    \E k \in DOMAIN hubcfg.load_roles[j].scopes :
                        hubcfg.load_roles[j].scopes[k] = AccessScope
====
